---- MODULE Spec2Model ----
(***************************************************************************)
(* pr-notifier: a poller that watches one pull request, or every open      *)
(* pull request of a repository, and posts one ntfy notification when the  *)
(* check runs of a head commit have all completed.                         *)
(*                                                                         *)
(* Modelled from src/scripts/pr-notifier.py (check_and_notify,             *)
(* send_notification, monitor_single_pr, monitor_repository, main).        *)
(* src/pr-notifier.py is the earlier repository-only variant whose main()  *)
(* inlines the same reconciliation and evaluation.                         *)
(*                                                                         *)
(* JSON objects are functions from key to value; a key the response lacks  *)
(* is a key outside the function's DOMAIN.  Text is a sequence of tokens.  *)
(***************************************************************************)
EXTENDS Integers, Sequences, FiniteSets, TLC

VARIABLES
    config,                \* GITHUB_TOKEN set, NTFY_TOPIC set, the target URL
    pc,                    \* where the process is (see Live, Terminal)
    pr_number,             \* monitor_single_pr: the PR number parsed from the URL
    monitored_commit_sha,  \* monitor_single_pr: the sha being watched, or None
    notified_shas,         \* monitor_single_pr: shas already notified
    monitored_prs,         \* monitor_repository: the dict, in insertion order
    response,              \* the last hosting-API response received
    evalIn,                \* arguments of the last check_and_notify call
    evalOut,               \* what that call did and returned
    cycle,                 \* monitor_repository: bookkeeping of the current cycle
    probe,                 \* observer: one <<pr_number, sha>>, fixed at the start
    sent,                  \* observer: send attempts made for probe (saturating)
    undelivered,           \* observer: some send attempt for probe failed
    interrupted            \* observer: Ctrl-C has been received

vars == <<config, pc, pr_number, monitored_commit_sha, notified_shas,
          monitored_prs, response, evalIn, evalOut, cycle, probe, sent,
          undelivered, interrupted>>

-----------------------------------------------------------------------------
(* Bounds and input domains *)

MaxRuns == 2
MaxSends == 2

PRNumbers == {1, 2}
Shas == {"A", "B"}
Titles == {"Fix bug", "Fix bug v2"}
RunNames == {"lint", "build"}
RunStatuses == {"completed", "in_progress"}
RunConclusions == {"success", "skipped", "neutral", "failure"}

None == "None"
Absent == "<absent>"

-----------------------------------------------------------------------------
(* JSON helpers *)

HasKey(obj, k) == k \in DOMAIN obj

Get(obj, k, default) == IF HasKey(obj, k) THEN obj[k] ELSE default

\* The object r without the keys whose value is Absent.
Present(r) == [k \in {x \in DOMAIN r : r[x] # Absent} |-> r[k]]

SeqsUpTo(S, n) == UNION {[1..m -> S] : m \in 0..n}

RunObjects ==
    {Present([status |-> s, conclusion |-> c, name |-> n]) :
        s \in RunStatuses \cup {Absent},
        c \in RunConclusions \cup {Absent},
        n \in RunNames \cup {Absent}}

\* Bodies of GET .../commits/{sha}/check-runs with up to n runs.
CheckDataObjects(n) ==
    {[total_count |-> t, check_runs |-> rs] :
        t \in 0..n, rs \in SeqsUpTo(RunObjects, n)}
    \cup {[check_runs |-> rs] : rs \in SeqsUpTo(RunObjects, 1)}
    \cup {[total_count |-> t] : t \in 0..n}

\* status 0: no HTTP response at all (connection error, timeout).
HttpResponse(status, json) == [status |-> status, json |-> json]
NoBody == <<>>
NoResponse == HttpResponse(-1, NoBody)
NetworkError == HttpResponse(0, NoBody)
ErrorResponses == {NetworkError, HttpResponse(404, NoBody), HttpResponse(500, NoBody)}

-----------------------------------------------------------------------------
(* requests *)

\* requests.get raises on a connection failure; raise_for_status raises
\* HTTPError on 4xx and 5xx.  Both are RequestException.
RaisesRequestException(resp) == resp.status = 0 \/ resp.status >= 400

\* bool(Response) is Response.ok: False for 4xx and 5xx.  e.response is None
\* when no response was received.
Truthy(resp) == resp.status # 0 /\ resp.status < 400

-----------------------------------------------------------------------------
(* Text *)

RECURSIVE Join(_, _)
Join(sep, parts) ==
    IF parts = <<>> THEN <<>>
    ELSE IF Len(parts) = 1 THEN Head(parts)
    ELSE Head(parts) \o <<sep>> \o Join(sep, Tail(parts))

Quoted(name) == <<"\"", name, "\"">>

-----------------------------------------------------------------------------
(* check_and_notify *)

OkConclusions == {"success", "skipped", "neutral"}

completed_checks_any_status(check_runs) == check_runs

no_checks_never(total_checks) == FALSE

\* `if total_checks == 0`
no_checks(total_checks) == total_checks = 0

completed_checks(check_runs) ==
    SelectSeq(check_runs, LAMBDA run : run["status"] = "completed")

failures_without_neutral(completed) ==
    SelectSeq(completed, LAMBDA run : run["conclusion"] \notin {"success", "skipped"})

failures(completed) ==
    SelectSeq(completed, LAMBDA run : run["conclusion"] \notin OkConclusions)

failed_names_reversed(fs) ==
    Join(", ", [i \in 1..Len(fs) |-> Quoted(fs[Len(fs) + 1 - i]["name"])])

failed_names(fs) ==
    Join(", ", [i \in 1..Len(fs) |-> Quoted(fs[i]["name"])])

success_message(total_checks) ==
    <<"All ", ToString(total_checks), " checks passed!">>

notification_title(number, title, conclusion) ==
    <<"PR #", ToString(number), " ", title, " Check: ", conclusion>>

\* send_notification: one POST; a RequestException is printed and swallowed.
send_notification(title, message, tags, post_ok) ==
    [title |-> title, message |-> message, tags |-> tags, delivered |-> post_ok]

Returned(conclusion, is_completed, posts) ==
    [raised |-> "none", conclusion |-> conclusion,
     is_completed |-> is_completed, posts |-> posts]

Raised(exc) ==
    [raised |-> exc, conclusion |-> None, is_completed |-> FALSE, posts |-> <<>>]

NotCalled == Raised("not_called")

check_and_notify(resp, number, title, post_ok) ==
    IF RaisesRequestException(resp) THEN Raised("RequestException")
    ELSE
    LET check_data == resp.json
        total_checks == Get(check_data, "total_count", 0)
        check_runs == Get(check_data, "check_runs", <<>>)
    IN
    IF no_checks(total_checks) THEN Returned("pending", FALSE, <<>>)
    ELSE IF \E i \in 1..Len(check_runs) : ~HasKey(check_runs[i], "status")
    THEN Raised("KeyError")
    ELSE
    LET completed == completed_checks(check_runs) IN
    IF Len(completed) # total_checks THEN Returned("in_progress", FALSE, <<>>)
    ELSE IF \E i \in 1..Len(completed) : ~HasKey(completed[i], "conclusion")
    THEN Raised("KeyError")
    ELSE
    LET fs == failures(completed) IN
    IF fs # <<>>
    THEN IF \E i \in 1..Len(fs) : ~HasKey(fs[i], "name")
         THEN Raised("KeyError")
         ELSE Returned("Failure", TRUE,
                <<send_notification(notification_title(number, title, "Failure"),
                                    <<"Checks failed: ">> \o failed_names(fs),
                                    "x", post_ok)>>)
    ELSE Returned("Success", TRUE,
                <<send_notification(notification_title(number, title, "Success"),
                                    success_message(total_checks),
                                    "tada", post_ok)>>)

EvalArgs(number, title, sha, post_ok) ==
    [pr_number |-> number, title |-> title, sha |-> sha, post_ok |-> post_ok]

NoArgs == EvalArgs(0, None, None, FALSE)

-----------------------------------------------------------------------------
(* Hosting-API bodies the trackers are fed *)

Without(obj, keys) == [k \in DOMAIN obj \ keys |-> obj[k]]

PullObject(number, sha, title, state) ==
    [number |-> number, head |-> [sha |-> sha], title |-> title, state |-> state]

\* A pull object lacking one of the fields the trackers index.
MalformedPulls(number) ==
    LET p == PullObject(number, "A", "Fix bug", "open") IN
    {Without(p, {"number"}), Without(p, {"head"}), Without(p, {"title"}),
     [p EXCEPT !.head = Without(p.head, {"sha"})]}

\* Bodies of GET .../pulls/{number}.
SinglePullBodies(number) ==
    {PullObject(number, s, t, st) :
        s \in Shas, t \in Titles, st \in {"open", "closed"}}
    \cup {Without(PullObject(number, s, "Fix bug", "open"), {"state"}) : s \in Shas}
    \cup (MalformedPulls(number) \ {Without(PullObject(number, "A", "Fix bug", "open"), {"number"})})
    \cup {Without(PullObject(number, "A", "Fix bug", "closed"), {"title"})}

\* Bodies of GET .../pulls: open pulls with distinct numbers, in any order;
\* or such a list with a malformed pull object at its end.
OpenPullLists ==
    {l \in SeqsUpTo({PullObject(n, s, t, "open") :
                        n \in PRNumbers, s \in Shas, t \in Titles},
                    Cardinality(PRNumbers)) :
        \A i, j \in 1..Len(l) : l[i].number = l[j].number => i = j}

MalformedPullLists ==
    {Append(l, m) : l \in {x \in OpenPullLists : Len(x) <= 1},
                    m \in UNION {MalformedPulls(n) : n \in PRNumbers}}

Run(name, status, conclusion) ==
    [name |-> name, status |-> status, conclusion |-> conclusion]

\* Bodies of GET .../check-runs fed to the trackers: one per outcome of
\* check_and_notify.
TrackerCheckData ==
    {[total_count |-> 0, check_runs |-> <<>>],
     [total_count |-> 2, check_runs |-> <<Run("lint", "completed", "success"),
                                          Run("build", "in_progress", "failure")>>],
     [total_count |-> 1, check_runs |-> <<Run("lint", "completed", "success")>>],
     [total_count |-> 1, check_runs |-> <<Run("lint", "completed", "failure")>>],
     [total_count |-> 1, check_runs |-> <<Without(Run("lint", "completed", "success"),
                                                  {"status"})>>]}

CheckResponses ==
    {HttpResponse(200, d) : d \in TrackerCheckData} \cup ErrorResponses

-----------------------------------------------------------------------------
(* URL parsing *)

\* The path of the URL, split at "/"; NoUrl when neither the command line nor
\* REPO_URL gives one.
NoUrl == <<>>
NoRef == <<>>

TargetUrls ==
    {<<"owner", "repo", "pull", "1">>, <<"owner", "repo", "pull", "2">>,
     <<"owner", "repo", "pull", "x">>, <<"owner", "repo">>, <<"owner">>}

IntOf == ("0" :> 0) @@ ("1" :> 1) @@ ("2" :> 2)

\* "/pull/" in path: a "pull" segment followed by another one.
is_pr_url(url) == \E i \in 1..(Len(url) - 1) : url[i] = "pull"

\* <<owner, repo, pr_number>>, or NoRef where the code returns (None, None, None)
\* or where all([...]) rejects a falsy part.
parse_pr_url(url) ==
    IF Len(url) >= 4 /\ url[3] = "pull" /\ url[4] \in DOMAIN IntOf /\ IntOf[url[4]] # 0
    THEN <<url[1], url[2], IntOf[url[4]]>>
    ELSE NoRef

parse_repo_url(url) ==
    IF Len(url) >= 2 THEN <<url[1], url[2]>> ELSE NoRef

-----------------------------------------------------------------------------
(* Observer *)

Min(a, b) == IF a < b THEN a ELSE b

Posts(out, number, sha) ==
    IF <<number, sha>> = probe THEN Len(out.posts) ELSE 0

Observe(out, number, sha) ==
    /\ sent' = Min(sent + Posts(out, number, sha), MaxSends)
    /\ undelivered' = (undelivered \/
                        (Posts(out, number, sha) > 0 /\ ~out.posts[1].delivered))

-----------------------------------------------------------------------------
(* main *)

\* next: the position the loop over monitored_prs.items() has reached.  The
\* other fields record what the cycle has done so far: the <<number, sha>> of
\* the open pull requests it fetched, the numbers inserted and removed by
\* the reconciliation, the <<number, new sha>> of the notified entries it
\* replaced, the <<number, sha>> passed to check_and_notify, and whether a
\* RequestException ended the cycle.
NoCycle == [open |-> {}, inserted |-> {}, removed |-> {}, reset |-> {},
            evaluated |-> {}, aborted |-> FALSE, next |-> 1]

Init ==
    /\ config \in [token : BOOLEAN, topic : BOOLEAN, url : TargetUrls \cup {NoUrl}]
    /\ pc = "main"
    /\ pr_number = 0
    /\ monitored_commit_sha = None
    /\ notified_shas = {}
    /\ monitored_prs = <<>>
    /\ response = NoResponse
    /\ evalIn = NoArgs
    /\ evalOut = NotCalled
    /\ cycle = NoCycle
    /\ probe \in PRNumbers \X Shas
    /\ sent = 0
    /\ undelivered = FALSE
    /\ interrupted = FALSE

\* Where a running tracker can be: blocked in the pulls GET, in the
\* check-runs GET, in the POST to ntfy, or in time.sleep.
Live == {"single_fetch", "single_check", "single_post", "single_sleep",
         "repo_fetch", "repo_check", "repo_post", "repo_sleep"}

Terminal == {"exit_1", "invalid_url", "closed", "not_found", "api_error",
             "stopped", "crashed"}

\* The status the process ends with: sys.exit(1) and an uncaught exception
\* give 1; returning from monitor_single_pr or monitor_repository, and so
\* from main, gives 0.
ExitStatus(at) == IF at \in {"exit_1", "crashed"} THEN 1 ELSE 0

Main ==
    /\ pc = "main"
    /\ IF ~config.token \/ ~config.topic \/ config.url = NoUrl
       THEN pc' = "exit_1" /\ UNCHANGED pr_number
       ELSE IF is_pr_url(config.url)
       THEN IF parse_pr_url(config.url) = NoRef
            THEN pc' = "invalid_url" /\ UNCHANGED pr_number
            ELSE pc' = "single_fetch" /\ pr_number' = parse_pr_url(config.url)[3]
       ELSE IF parse_repo_url(config.url) = NoRef
            THEN pc' = "invalid_url" /\ UNCHANGED pr_number
            ELSE pc' = "repo_fetch" /\ UNCHANGED pr_number
    /\ UNCHANGED <<config, monitored_commit_sha, notified_shas, monitored_prs,
                   response, evalIn, evalOut, cycle, probe, interrupted, sent, undelivered>>

-----------------------------------------------------------------------------
(* monitor_single_pr *)

\* The except clauses sit outside the while loop: whichever is taken, the
\* loop is over.
on_request_exception(resp) ==
    IF Truthy(resp) /\ resp.status = 404 THEN "not_found" ELSE "api_error"

add_notified_never(shas, sha, is_completed) == shas

add_notified(shas, sha, is_completed) ==
    IF is_completed THEN shas \cup {sha} ELSE shas

pr_is_open_always(pr_data) == TRUE

\* `pr_data.get("state") != "open"` is the test for leaving the loop.
pr_is_open(pr_data) == Get(pr_data, "state", None) = "open"

MonitorSinglePrFetch ==
    /\ pc = "single_fetch"
    /\ \E resp \in {HttpResponse(200, b) : b \in SinglePullBodies(pr_number)}
                   \cup ErrorResponses :
        /\ response' = resp
        /\ IF RaisesRequestException(resp)
           THEN pc' = on_request_exception(resp) /\ UNCHANGED monitored_commit_sha
           ELSE LET pr_data == resp.json IN
                IF \/ ~HasKey(pr_data, "head")
                   \/ ~HasKey(pr_data["head"], "sha")
                   \/ ~HasKey(pr_data, "title")
                THEN pc' = "crashed" /\ UNCHANGED monitored_commit_sha
                ELSE IF ~pr_is_open(pr_data)
                THEN pc' = "closed" /\ UNCHANGED monitored_commit_sha
                ELSE /\ monitored_commit_sha' = pr_data["head"]["sha"]
                     /\ pc' = IF monitored_commit_sha' \in notified_shas
                              THEN "single_sleep" ELSE "single_check"
    /\ evalIn' = NoArgs
    /\ evalOut' = NotCalled
    /\ UNCHANGED <<config, pr_number, notified_shas, monitored_prs, cycle,
                   probe, interrupted, sent, undelivered>>

\* check_and_notify up to the point where it either returns without sending
\* or calls send_notification.  post_ok is whether the POST, if one is made,
\* will go through.
MonitorSinglePrCheck ==
    /\ pc = "single_check"
    /\ \E resp \in CheckResponses, post_ok \in BOOLEAN :
        LET title == response.json["title"]
            out == check_and_notify(resp, pr_number, title, post_ok)
        IN
        /\ evalIn' = EvalArgs(pr_number, title, monitored_commit_sha, post_ok)
        /\ response' = resp
        /\ IF out.posts # <<>>
           THEN /\ pc' = "single_post"
                /\ evalOut' = NotCalled
           ELSE /\ evalOut' = out
                /\ pc' = IF out.raised = "RequestException" THEN on_request_exception(resp)
                         ELSE IF out.raised = "KeyError" THEN "crashed"
                         ELSE "single_sleep"
    /\ UNCHANGED <<config, pr_number, monitored_commit_sha, notified_shas,
                   monitored_prs, cycle, probe, interrupted, sent, undelivered>>

\* The POST of send_notification ends, check_and_notify returns and the
\* caller records the sha.
MonitorSinglePrPost ==
    /\ pc = "single_post"
    /\ LET out == check_and_notify(response, evalIn.pr_number, evalIn.title,
                                   evalIn.post_ok)
       IN
        /\ evalOut' = out
        /\ Observe(out, pr_number, monitored_commit_sha)
        /\ notified_shas' = add_notified(notified_shas, monitored_commit_sha,
                                         out.is_completed)
        /\ pc' = "single_sleep"
    /\ UNCHANGED <<config, pr_number, monitored_commit_sha, monitored_prs,
                   response, evalIn, cycle, probe, interrupted>>

MonitorSinglePrSleep ==
    /\ pc = "single_sleep"
    /\ pc' = "single_fetch"
    /\ response' = NoResponse
    /\ evalIn' = NoArgs
    /\ evalOut' = NotCalled
    /\ UNCHANGED <<config, pr_number, monitored_commit_sha, notified_shas,
                   monitored_prs, cycle, probe, interrupted, sent, undelivered>>

-----------------------------------------------------------------------------
(* monitor_repository *)

Entry(number, sha, title, notified) ==
    [number |-> number, sha |-> sha, title |-> title, notified |-> notified]

Numbers(prs) == {prs[i].number : i \in 1..Len(prs)}

IndexOf(prs, number) == CHOOSE i \in 1..Len(prs) : prs[i].number = number

MalformedPull(pr) ==
    \/ ~HasKey(pr, "number")
    \/ ~HasKey(pr, "head")
    \/ ~HasKey(pr["head"], "sha")
    \/ ~HasKey(pr, "title")

upsert_keeps_notified(prs, pr) ==
    LET number == pr["number"]
        commit_sha == pr["head"]["sha"]
        title == pr["title"]
    IN  IF number \notin Numbers(prs)
        THEN Append(prs, Entry(number, commit_sha, title, FALSE))
        ELSE [prs EXCEPT ![IndexOf(prs, number)] =
                            Entry(number, commit_sha, title, @.notified)]

upsert_resets_on_title(prs, pr) ==
    LET number == pr["number"]
        commit_sha == pr["head"]["sha"]
        title == pr["title"]
    IN  IF number \notin Numbers(prs)
        THEN Append(prs, Entry(number, commit_sha, title, FALSE))
        ELSE IF prs[IndexOf(prs, number)].sha # commit_sha
                \/ prs[IndexOf(prs, number)].title # title
        THEN [prs EXCEPT ![IndexOf(prs, number)] =
                            Entry(number, commit_sha, title, FALSE)]
        ELSE prs

\* The body of the loop over open_prs_data: a dict assignment to an existing
\* key keeps the key's position.
upsert(prs, pr) ==
    LET number == pr["number"]
        commit_sha == pr["head"]["sha"]
        title == pr["title"]
    IN  IF number \notin Numbers(prs)
        THEN Append(prs, Entry(number, commit_sha, title, FALSE))
        ELSE IF prs[IndexOf(prs, number)].sha # commit_sha
        THEN [prs EXCEPT ![IndexOf(prs, number)] =
                            Entry(number, commit_sha, title, FALSE)]
        ELSE [prs EXCEPT ![IndexOf(prs, number)].title = title]

RECURSIVE upsert_all(_, _)
upsert_all(prs, open_prs) ==
    IF open_prs = <<>> THEN prs
    ELSE upsert_all(upsert(prs, Head(open_prs)), Tail(open_prs))

remove_closed_never(prs, current_open_pr_numbers) == prs

remove_closed(prs, current_open_pr_numbers) ==
    SelectSeq(prs, LAMBDA e : e.number \in current_open_pr_numbers)

\* The longest prefix of the list the loop gets through.
WellFormedPrefix(open_prs) ==
    LET bad == {i \in 1..Len(open_prs) : MalformedPull(open_prs[i])}
    IN  IF bad = {} THEN open_prs
        ELSE SubSeq(open_prs, 1, (CHOOSE i \in bad : \A j \in bad : i <= j) - 1)

NextUnnotified_skips_one(prs, from) ==
    LET S == {i \in (from + 1)..Len(prs) : ~prs[i].notified}
    IN  IF S = {} THEN Len(prs) + 1 ELSE CHOOSE i \in S : \A j \in S : i <= j

\* Position of the first entry at or after position from that is not
\* notified; Len + 1 when there is none.
NextUnnotified(prs, from) ==
    LET S == {i \in from..Len(prs) : ~prs[i].notified}
    IN  IF S = {} THEN Len(prs) + 1 ELSE CHOOSE i \in S : \A j \in S : i <= j

ResetBy(prs, open_prs) ==
    {<<open_prs[i].number, open_prs[i].head.sha>> : i \in {j \in 1..Len(open_prs) :
        /\ open_prs[j].number \in Numbers(prs)
        /\ prs[IndexOf(prs, open_prs[j].number)].notified
        /\ prs[IndexOf(prs, open_prs[j].number)].sha # open_prs[j].head.sha}}

\* What the inner except clause leaves of the mapping: it only prints.
after_request_exception_restarts(prs) == <<>>

after_request_exception(prs) == prs

MonitorRepositoryFetch ==
    /\ pc = "repo_fetch"
    /\ \E resp \in {HttpResponse(200, l) : l \in OpenPullLists \cup MalformedPullLists}
                   \cup ErrorResponses :
        /\ response' = resp
        /\ IF RaisesRequestException(resp)
           THEN /\ pc' = "repo_sleep"
                /\ cycle' = [NoCycle EXCEPT !.aborted = TRUE]
                /\ monitored_prs' = after_request_exception(monitored_prs)
           ELSE LET open_prs_data == resp.json
                    seen == WellFormedPrefix(open_prs_data)
                IN  IF seen # open_prs_data
                    THEN /\ monitored_prs' = upsert_all(monitored_prs, seen)
                         /\ pc' = "crashed"
                         /\ cycle' = NoCycle
                    ELSE /\ monitored_prs' =
                                remove_closed(upsert_all(monitored_prs, open_prs_data),
                                              Numbers(open_prs_data))
                         /\ cycle' = [open |-> {<<open_prs_data[j].number,
                                                  open_prs_data[j].head.sha>> :
                                                    j \in 1..Len(open_prs_data)},
                                      inserted |-> Numbers(open_prs_data) \ Numbers(monitored_prs),
                                      removed |-> Numbers(monitored_prs) \ Numbers(open_prs_data),
                                      reset |-> ResetBy(monitored_prs, open_prs_data),
                                      evaluated |-> {}, aborted |-> FALSE,
                                      next |-> NextUnnotified(monitored_prs', 1)]
                         /\ pc' = IF cycle'.next > Len(monitored_prs')
                                  THEN "repo_sleep" ELSE "repo_check"
    /\ evalIn' = NoArgs
    /\ evalOut' = NotCalled
    /\ UNCHANGED <<config, pr_number, monitored_commit_sha, notified_shas,
                   probe, interrupted, sent, undelivered>>

mark_notified_always(prs, i, is_completed) == [prs EXCEPT ![i].notified = TRUE]

mark_notified(prs, i, is_completed) ==
    IF is_completed THEN [prs EXCEPT ![i].notified = TRUE] ELSE prs

\* One iteration of the loop over monitored_prs.items() that reaches
\* check_and_notify, up to the point where check_and_notify either returns
\* without sending or calls send_notification; the iterations that only
\* `continue` are passed over.
MonitorRepositoryCheck ==
    /\ pc = "repo_check"
    /\ \E resp \in CheckResponses, post_ok \in BOOLEAN :
        LET i == cycle.next
            data == monitored_prs[i]
            out == check_and_notify(resp, data.number, data.title, post_ok)
        IN
        /\ evalIn' = EvalArgs(data.number, data.title, data.sha, post_ok)
        /\ response' = resp
        /\ IF out.posts # <<>>
           THEN /\ pc' = "repo_post"
                /\ evalOut' = NotCalled
                /\ cycle' = [cycle EXCEPT !.evaluated = @ \cup {<<data.number, data.sha>>}]
                /\ UNCHANGED monitored_prs
           ELSE /\ evalOut' = out
                /\ IF out.raised = "RequestException"
                   THEN /\ pc' = "repo_sleep"
                        /\ cycle' = [cycle EXCEPT !.aborted = TRUE,
                                          !.evaluated = @ \cup {<<data.number, data.sha>>}]
                        /\ monitored_prs' = after_request_exception(monitored_prs)
                   ELSE IF out.raised = "KeyError"
                   THEN /\ pc' = "crashed"
                        /\ cycle' = [cycle EXCEPT !.evaluated = @ \cup {<<data.number, data.sha>>}]
                        /\ UNCHANGED monitored_prs
                   ELSE /\ monitored_prs' = mark_notified(monitored_prs, i, out.is_completed)
                        /\ cycle' = [cycle EXCEPT !.evaluated = @ \cup {<<data.number, data.sha>>},
                                          !.next = NextUnnotified(monitored_prs', i + 1)]
                        /\ pc' = IF cycle'.next > Len(monitored_prs')
                                 THEN "repo_sleep" ELSE "repo_check"
    /\ UNCHANGED <<config, pr_number, monitored_commit_sha, notified_shas, probe,
                   interrupted, sent, undelivered>>

\* The POST of send_notification ends, check_and_notify returns and the loop
\* sets the entry's flag and moves on.
MonitorRepositoryPost ==
    /\ pc = "repo_post"
    /\ LET i == cycle.next
           out == check_and_notify(response, evalIn.pr_number, evalIn.title,
                                   evalIn.post_ok)
       IN
        /\ evalOut' = out
        /\ Observe(out, evalIn.pr_number, evalIn.sha)
        /\ monitored_prs' = mark_notified(monitored_prs, i, out.is_completed)
        /\ cycle' = [cycle EXCEPT !.next = NextUnnotified(monitored_prs', i + 1)]
        /\ pc' = IF cycle'.next > Len(monitored_prs') THEN "repo_sleep" ELSE "repo_check"
    /\ UNCHANGED <<config, pr_number, monitored_commit_sha, notified_shas,
                   response, evalIn, probe, interrupted>>

MonitorRepositorySleep ==
    /\ pc = "repo_sleep"
    /\ pc' = "repo_fetch"
    /\ response' = NoResponse
    /\ evalIn' = NoArgs
    /\ evalOut' = NotCalled
    /\ cycle' = NoCycle
    /\ UNCHANGED <<config, pr_number, monitored_commit_sha, notified_shas,
                   monitored_prs, probe, interrupted, sent, undelivered>>

-----------------------------------------------------------------------------
(* Ctrl-C while a tracker loop is running *)

\* Both trackers catch KeyboardInterrupt around the whole loop; nothing on the
\* way (send_notification, the inner try of monitor_repository) catches it.
on_keyboard_interrupt_swallowed_in_post(at) ==
    IF at = "single_post" THEN "single_sleep"
    ELSE IF at = "repo_post" THEN "repo_sleep"
    ELSE "stopped"

on_keyboard_interrupt(at) == "stopped"

KeyboardInterrupt ==
    /\ pc \in Live
    /\ interrupted' = TRUE
    /\ pc' = on_keyboard_interrupt(pc)
    /\ UNCHANGED <<config, pr_number, monitored_commit_sha, notified_shas,
                   monitored_prs, response, evalIn, evalOut, cycle, probe, sent,
                   undelivered>>

Next ==
    \/ Main
    \/ MonitorSinglePrFetch
    \/ MonitorSinglePrCheck
    \/ MonitorSinglePrPost
    \/ MonitorSinglePrSleep
    \/ MonitorRepositoryFetch
    \/ MonitorRepositoryCheck
    \/ MonitorRepositoryPost
    \/ MonitorRepositorySleep
    \/ KeyboardInterrupt

Spec == Init /\ [][Next]_vars

-----------------------------------------------------------------------------
(* check_and_notify on its own, over every check-runs body up to MaxRuns runs *)

InitEval ==
    /\ config = [token |-> TRUE, topic |-> TRUE, url |-> NoUrl]
    /\ pc = "call_check_and_notify"
    /\ pr_number = 0
    /\ monitored_commit_sha = None
    /\ notified_shas = {}
    /\ monitored_prs = <<>>
    /\ response \in {HttpResponse(200, d) : d \in CheckDataObjects(MaxRuns)} \cup ErrorResponses
    /\ evalIn \in {EvalArgs(42, "Fix bug", "A", ok) : ok \in BOOLEAN}
    /\ evalOut = NotCalled
    /\ cycle = NoCycle
    /\ probe = <<42, "A">>
    /\ sent = 0
    /\ undelivered = FALSE
    /\ interrupted = FALSE

CallCheckAndNotify ==
    /\ pc = "call_check_and_notify"
    /\ evalOut' = check_and_notify(response, evalIn.pr_number, evalIn.title,
                                   evalIn.post_ok)
    /\ Observe(evalOut', evalIn.pr_number, evalIn.sha)
    /\ pc' = "returned"
    /\ UNCHANGED <<config, pr_number, monitored_commit_sha, notified_shas,
                   monitored_prs, response, evalIn, cycle, probe, interrupted>>

NextEval == CallCheckAndNotify

SpecEval == InitEval /\ [][NextEval]_vars

-----------------------------------------------------------------------------
(* Properties *)

SingleMode == pr_number # 0

RepositoryMode == pr_number = 0 /\ pc \in Live \cup {"stopped", "crashed"}

\* C1: the single-PR tracker makes at most one send attempt per commit sha,
\* whatever shas the pull request reports over the cycles, and a cycle whose
\* tracked sha is already in notified_shas never reaches check_and_notify.
C1_SinglePrNotifiesEachShaOnce ==
    SingleMode =>
        /\ sent <= 1
        /\ pc = "single_check" => monitored_commit_sha \notin notified_shas
        /\ evalOut # NotCalled /\ ~evalOut.is_completed => evalIn.sha \notin notified_shas

\* A cycle that found its sha already notified and went straight to sleep,
\* after both shas had been notified once.
C1_Witness ==
    /\ SingleMode
    /\ pc = "single_sleep"
    /\ response.status = 200
    /\ evalOut = NotCalled
    /\ probe = <<pr_number, monitored_commit_sha>>
    /\ notified_shas = Shas
    /\ sent = 1

\* C2: in repository mode no more than one notification is sent for the same
\* pull-request number and head sha, also when the sha changes and comes back
\* or the pull request leaves the open list and re-enters it.
C2_RepositoryNotifiesEachCommitOnce ==
    RepositoryMode => sent <= 1

\* C3: a transport error other than not-found on the single-PR tracker's
\* fetches leaves the tracker watching, about to sleep and poll again.
C3_SinglePrSurvivesTransientError ==
    (SingleMode /\ RaisesRequestException(response) /\ response.status # 404)
        => pc \in {"single_sleep", "stopped"}

\* C4: the repository tracker has no terminal state: a transport error ends
\* only the current cycle, and the loop ends only on an interrupt.
C4_RepositoryLoopEndsOnlyOnInterrupt ==
    RepositoryMode =>
        /\ pc \in Live \cup {"stopped"}
        /\ RaisesRequestException(response) => pc \in {"repo_sleep", "stopped"}

\* C5: a 2xx response whose JSON lacks an expected field never terminates
\* the tracker: the cycle is dropped and the loop goes on.
C5_MalformedResponseIsTransient ==
    pc # "crashed"

NotifiedNow(number, sha) ==
    IF SingleMode THEN sha \in notified_shas
    ELSE \E i \in 1..Len(monitored_prs) :
            monitored_prs[i] = Entry(number, sha, monitored_prs[i].title, TRUE)

\* C6: when the send fails, check_and_notify still returns is_completed = True
\* and the caller marks the commit notified; no send is attempted for that
\* commit in any later cycle.
C6_FailedSendIsNeverRepeated ==
    /\ [](\A i \in 1..Len(evalOut.posts) : ~evalOut.posts[i].delivered =>
            evalOut.is_completed /\ NotifiedNow(evalIn.pr_number, evalIn.sha))
    /\ [][undelivered => sent' = sent]_vars

\* A reconciliation that ran to its end.
ReconcileStep ==
    /\ pc = "repo_fetch"
    /\ pc' \in {"repo_check", "repo_sleep"}
    /\ response'.status = 200

\* C7 (as amended): a notified entry whose pull request is reported with
\* another sha is replaced by an entry with that sha and notified = False;
\* the new sha is passed to check_and_notify in the same cycle if the cycle
\* is not ended first by a RequestException, and until then the entry is
\* still ahead of the evaluation loop.
C7_CommitChangeResets ==
    /\ [][ReconcileStep =>
            \A i \in 1..Len(monitored_prs), j \in 1..Len(response'.json) :
                LET old == monitored_prs[i]
                    pr == response'.json[j]
                IN  (old.notified /\ pr.number = old.number /\ pr.head.sha # old.sha) =>
                        /\ \E k \in 1..Len(monitored_prs') :
                              monitored_prs'[k] =
                                  Entry(old.number, pr.head.sha, pr.title, FALSE)
                        /\ <<old.number, pr.head.sha>> \in cycle'.reset]_vars
    /\ []((pc = "repo_sleep" /\ ~cycle.aborted) => cycle.reset \subseteq cycle.evaluated)
    /\ [](pc = "repo_check" =>
            \A r \in cycle.reset \ cycle.evaluated :
                \E k \in cycle.next..Len(monitored_prs) :
                    /\ monitored_prs[k].number = r[1]
                    /\ monitored_prs[k].sha = r[2]
                    /\ ~monitored_prs[k].notified)

\* A cycle that replaced a notified entry and has evaluated its new sha.
C7_Witness ==
    /\ pc = "repo_sleep"
    /\ ~cycle.aborted
    /\ cycle.reset # {}
    /\ cycle.reset \subseteq cycle.evaluated

\* C7 as claimed: every cycle that replaces a notified entry passes the new
\* sha to check_and_notify before the cycle ends.
C7_ResetEntryEvaluatedInSameCycle ==
    pc = "repo_sleep" => cycle.reset \subseteq cycle.evaluated

\* C8: after a reconciliation the tracked numbers are the fetched numbers;
\* a newly present pull request is tracked with notified = False, and one
\* present before with the same sha keeps sha and notified flag and takes the
\* fetched title.
C8_Reconciliation ==
    [][ReconcileStep =>
        LET open_prs == response'.json IN
        /\ Numbers(monitored_prs') = Numbers(open_prs)
        /\ Len(monitored_prs') = Cardinality(Numbers(open_prs))
        /\ cycle'.removed = Numbers(monitored_prs) \ Numbers(monitored_prs')
        /\ \A j \in 1..Len(open_prs) :
            LET pr == open_prs[j]
                new == monitored_prs'[IndexOf(monitored_prs', pr.number)]
            IN  /\ pr.number \notin Numbers(monitored_prs) =>
                        new = Entry(pr.number, pr.head.sha, pr.title, FALSE)
                /\ \A i \in 1..Len(monitored_prs) :
                        (monitored_prs[i].number = pr.number
                         /\ monitored_prs[i].sha = pr.head.sha) =>
                            new = [monitored_prs[i] EXCEPT !.title = pr.title]]_vars

\* A reconciliation that deleted one pull request and kept another with its
\* notified flag set.
C8_Witness ==
    /\ pc = "repo_sleep"
    /\ response.status = 200
    /\ evalOut = NotCalled
    /\ cycle.removed # {}
    /\ \E i \in 1..Len(monitored_prs) : monitored_prs[i].notified

(* The check-runs body as the claims about check_and_notify read it. *)

WellFormedCheckData(d) ==
    /\ DOMAIN d = {"total_count", "check_runs"}
    /\ \A i \in 1..Len(d.check_runs) :
            DOMAIN d.check_runs[i] = {"name", "status", "conclusion"}

Evaluated ==
    /\ evalOut # NotCalled
    /\ response.status = 200
    /\ WellFormedCheckData(response.json)

CompletedCount(d) ==
    Cardinality({i \in 1..Len(d.check_runs) : d.check_runs[i].status = "completed"})

FailingIndices(d) ==
    {i \in 1..Len(d.check_runs) :
        /\ d.check_runs[i].status = "completed"
        /\ d.check_runs[i].conclusion \notin {"success", "skipped", "neutral"}}

\* The n-th smallest element of a set of numbers.
RECURSIVE Nth(_, _)
Nth(S, n) ==
    LET m == CHOOSE x \in S : \A y \in S : x <= y
    IN  IF n = 1 THEN m ELSE Nth(S \ {m}, n - 1)

\* C9: when every run is completed and at least one completed run has a
\* conclusion outside {success, skipped, neutral}, check_and_notify returns
\* ("Failure", True) after exactly one send attempt with tag x, whose body is
\* "Checks failed: " followed by the failing names, each in double quotes,
\* separated by ", ", in the order of the response.
C9_FailureNotification ==
    (Evaluated
     /\ CompletedCount(response.json) = response.json.total_count
     /\ FailingIndices(response.json) # {}) =>
        LET F == FailingIndices(response.json)
            k == Cardinality(F)
            m == evalOut.posts[1].message
        IN  /\ evalOut.raised = "none"
            /\ evalOut.conclusion = "Failure"
            /\ evalOut.is_completed
            /\ Len(evalOut.posts) = 1
            /\ sent = 1
            /\ evalOut.posts[1].tags = "x"
            /\ Len(m) = 4 * k
            /\ m[1] = "Checks failed: "
            /\ \A j \in 1..k :
                /\ m[4 * j - 2] = "\""
                /\ m[4 * j - 1] = response.json.check_runs[Nth(F, j)].name
                /\ m[4 * j] = "\""
                /\ j < k => m[4 * j + 1] = ", "

\* Two failing runs with different names, listed in the order of the response.
C9_Witness ==
    /\ Evaluated
    /\ evalOut.conclusion = "Failure"
    /\ Len(evalOut.posts) = 1
    /\ evalOut.posts[1].message =
            <<"Checks failed: ", "\"", "lint", "\"", ", ", "\"", "build", "\"">>

AllCompletedNoFailure ==
    /\ Evaluated
    /\ CompletedCount(response.json) = response.json.total_count
    /\ FailingIndices(response.json) = {}

SuccessNotification ==
    /\ evalOut.raised = "none"
    /\ evalOut.conclusion = "Success"
    /\ evalOut.is_completed
    /\ Len(evalOut.posts) = 1
    /\ sent = 1
    /\ evalOut.posts[1].tags = "tada"
    /\ evalOut.posts[1].message =
            <<"All ", ToString(response.json.total_count), " checks passed!">>
    /\ SubSeq(evalOut.posts[1].title, 1, 2) = <<"PR #", ToString(evalIn.pr_number)>>

\* C10 (as amended): when total_count is at least 1, every run is completed
\* and every completed run's conclusion is in {success, skipped, neutral},
\* check_and_notify returns ("Success", True) after exactly one send attempt
\* with tag tada and body "All <total_count> checks passed!".
C10_SuccessNotification ==
    (AllCompletedNoFailure /\ response.json.total_count > 0) => SuccessNotification

\* Two completed runs, one neutral and one skipped.
C10_Witness ==
    /\ AllCompletedNoFailure
    /\ response.json.total_count = 2
    /\ \E i \in 1..2 : response.json.check_runs[i].conclusion = "neutral"
    /\ \E i \in 1..2 : response.json.check_runs[i].conclusion = "skipped"
    /\ SuccessNotification

\* C10 as claimed: completed count equal to total_count and no failing
\* conclusion give Success and one notification, also when total_count is 0.
C10_SuccessWheneverNothingFails ==
    AllCompletedNoFailure => SuccessNotification

\* C11: when the response reports at least one check run and fewer completed
\* runs than total_count, check_and_notify returns ("in_progress", False) and
\* no send attempt is made.
C11_StillRunningSendsNothing ==
    (Evaluated
     /\ response.json.total_count > 0
     /\ CompletedCount(response.json) < response.json.total_count) =>
        /\ evalOut = Returned("in_progress", FALSE, <<>>)
        /\ sent = 0
        /\ ~undelivered

\* One run of two is completed, and it has failed.
C11_Witness ==
    /\ Evaluated
    /\ response.json.total_count = 2
    /\ Len(response.json.check_runs) = 2
    /\ CompletedCount(response.json) = 1
    /\ FailingIndices(response.json) # {}
    /\ evalOut.conclusion = "in_progress"

\* C12: when total_count is 0, check_and_notify returns ("pending", False) and
\* no send attempt is made, whatever the check_runs list holds.
C12_NoChecksYetSendsNothing ==
    (/\ evalOut # NotCalled
     /\ response.status = 200
     /\ HasKey(response.json, "total_count")
     /\ response.json.total_count = 0) =>
        /\ evalOut = Returned("pending", FALSE, <<>>)
        /\ sent = 0
        /\ ~undelivered

\* total_count is 0 and the list is empty.
C12_Witness ==
    /\ pc = "returned"
    /\ response.status = 200
    /\ response.json = [total_count |-> 0, check_runs |-> <<>>]
    /\ evalOut.conclusion = "pending"

\* C13: once Ctrl-C has been received the tracker is stopped, whether it was
\* waiting for the pulls response, for the check-runs response, for the POST
\* or in time.sleep; it has not crashed, and from then on no send attempt is
\* made and no call of check_and_notify returns.
C13_InterruptStopsTheLoop ==
    [][/\ interrupted' => pc' = "stopped"
       /\ interrupted => /\ sent' = sent
                         /\ undelivered' = undelivered
                         /\ evalOut' = evalOut
                         /\ response' = response]_vars

\* Ctrl-C arrived while check_and_notify was sending the notification for
\* the probe commit: the tracker stopped and the commit was never notified.
C13_Witness ==
    /\ interrupted
    /\ pc = "stopped"
    /\ evalIn # NoArgs
    /\ evalOut = NotCalled
    /\ probe = <<evalIn.pr_number, evalIn.sha>>
    /\ sent = 0

\* C14: when the single-PR fetch returns a pull request whose state is not
\* open, the tracker goes to closed in that step without calling
\* check_and_notify, whether or not the reported sha has been notified; once
\* closed it makes no further request and no send attempt.
C14_ClosedPrStopsTracker ==
    [][/\ (/\ pc = "single_fetch"
           /\ response'.status = 200
           /\ ~MalformedPull(response'.json)
           /\ Get(response'.json, "state", None) # "open") =>
                /\ pc' = "closed"
                /\ evalIn' = NoArgs
                /\ evalOut' = NotCalled
                /\ sent' = sent
                /\ notified_shas' = notified_shas
       /\ pc = "closed" =>
                /\ pc' = "closed"
                /\ response' = response
                /\ evalOut' = evalOut
                /\ sent' = sent]_vars

\* The pull request was closed with head sha B after sha A had been notified:
\* B is never evaluated.
C14_Witness ==
    /\ pc = "closed"
    /\ Get(response.json, "state", None) = "closed"
    /\ response.json["head"]["sha"] = "B"
    /\ notified_shas = {"A"}
    /\ evalOut = NotCalled

\* C15: a 404 answer to the single-PR fetch takes the tracker to the
\* not-found outcome, any other request failure to the API-error outcome.
C15_NotFoundIsDistinguished ==
    (SingleMode /\ evalIn = NoArgs /\ RaisesRequestException(response)) =>
        pc = IF response.status = 404 THEN "not_found" ELSE "api_error"

(* Configuration as the claims about main read it. *)

UnparsableUrls == {<<"owner">>, <<"owner", "repo", "pull", "x">>}

ConfigurationError ==
    \/ ~config.token
    \/ ~config.topic
    \/ config.url = NoUrl
    \/ config.url \in UnparsableUrls

\* C16: when the token, the topic or the URL is missing, or the URL cannot
\* be parsed, the process ends before any request and any send attempt, with
\* a non-zero exit status.
C16_ConfigurationErrorIsFatal ==
    (ConfigurationError /\ pc # "main") =>
        /\ pc \in Terminal
        /\ ExitStatus(pc) # 0
        /\ response = NoResponse
        /\ sent = 0

(* The evaluation loop of monitor_repository as the claims read it. *)

\* The cycle that has just ended got its list of open pull requests.
OpenPrFetchSucceeded == ~(cycle.aborted /\ evalIn = NoArgs)

EvaluatedThisCycle(i) ==
    <<monitored_prs[i].number, monitored_prs[i].sha>> \in cycle.evaluated

\* C17 (as amended): in a cycle whose open-PR fetch succeeds, check_and_notify
\* is called for the un-notified entries in mapping order; the entries the
\* loop has passed have all been evaluated, and so have all entries when the
\* cycle ends without a RequestException.  An entry evaluated with all of its
\* check runs completed is notified = True from the moment the call returns.
C17_UnnotifiedEntriesEvaluatedInOrder ==
    RepositoryMode =>
        /\ pc \in {"repo_check", "repo_post"} =>
                \A i \in 1..(cycle.next - 1) :
                    ~monitored_prs[i].notified => EvaluatedThisCycle(i)
        /\ (pc = "repo_sleep" /\ ~cycle.aborted) =>
                \A i \in 1..Len(monitored_prs) :
                    ~monitored_prs[i].notified => EvaluatedThisCycle(i)
        /\ (/\ Evaluated
            /\ response.json.total_count > 0
            /\ CompletedCount(response.json) = response.json.total_count) =>
                NotifiedNow(evalIn.pr_number, evalIn.sha)

\* Both entries were evaluated in one cycle: the first is still running and
\* stays un-notified, the second is notified.
C17_Witness ==
    /\ pc = "repo_sleep"
    /\ ~cycle.aborted
    /\ Len(monitored_prs) = 2
    /\ Cardinality(cycle.evaluated) = 2
    /\ ~monitored_prs[1].notified
    /\ monitored_prs[2].notified
    /\ evalOut.is_completed
    /\ evalIn.pr_number = monitored_prs[2].number

\* C17 as claimed: every cycle whose open-PR fetch succeeds calls
\* check_and_notify for every un-notified entry, whatever happens to the
\* check-run fetches of the other entries.
C17_EveryUnnotifiedEntryEvaluated ==
    (pc = "repo_sleep" /\ OpenPrFetchSucceeded) =>
        \A i \in 1..Len(monitored_prs) :
            ~monitored_prs[i].notified => EvaluatedThisCycle(i)

\* The commit is recorded as notified: its sha is in notified_shas of the
\* tracker of pull request number, or the entry of number has this sha and
\* notified = True.
Marked(number, sha) ==
    IF SingleMode THEN number = pr_number /\ sha \in notified_shas
    ELSE \E i \in 1..Len(monitored_prs) :
            /\ monitored_prs[i].number = number
            /\ monitored_prs[i].sha = sha
            /\ monitored_prs[i].notified

\* C18: a commit is recorded as notified only if a send attempt has been made
\* for that pull request and sha; and the only step that records one is the
\* return of the check_and_notify call made for it, with is_completed = True
\* after one send attempt, on a response in which every check run is
\* completed.
C18_NotifiedImpliesSent ==
    /\ [](Marked(probe[1], probe[2]) => sent >= 1)
    /\ [][\A number \in PRNumbers, sha \in Shas :
            (~Marked(number, sha) /\ Marked(number, sha)') =>
                /\ pc \in {"single_post", "repo_post"}
                /\ evalIn.pr_number = number
                /\ evalIn.sha = sha
                /\ evalOut'.is_completed
                /\ Len(evalOut'.posts) = 1
                /\ response.status = 200
                /\ response.json.total_count > 0
                /\ CompletedCount(response.json) = response.json.total_count]_vars

\* In repository mode the entry of the probe commit is notified after one
\* send attempt, which failed.
C18_Witness ==
    /\ RepositoryMode
    /\ pc = "repo_sleep"
    /\ Marked(probe[1], probe[2])
    /\ sent = 1
    /\ undelivered

\* C19: in repository mode check_and_notify is called only with a pull
\* request number and sha that the open-PR list fetched in the same cycle
\* reports; while the evaluation loop runs the tracked numbers and shas are
\* exactly those of that list, no removed number is evaluated, and a send
\* attempt is made only for a commit of that list.
C19_OnlyListedCommitsEvaluated ==
    /\ [](RepositoryMode =>
            /\ evalIn # NoArgs => <<evalIn.pr_number, evalIn.sha>> \in cycle.open
            /\ cycle.evaluated \subseteq cycle.open
            /\ \A e \in cycle.evaluated : e[1] \notin cycle.removed
            /\ pc \in {"repo_check", "repo_post"} =>
                    {<<monitored_prs[i].number, monitored_prs[i].sha>> :
                        i \in 1..Len(monitored_prs)} = cycle.open)
    /\ [][(RepositoryMode /\ sent' # sent) => probe \in cycle.open]_vars

\* Pull request 1 left the list after its commit had been notified; the
\* cycle removed it and evaluated only pull request 2.
C19_Witness ==
    /\ pc = "repo_sleep"
    /\ cycle.removed = {1}
    /\ probe[1] = 1
    /\ sent = 1
    /\ Numbers(monitored_prs) = {2}
    /\ Cardinality(cycle.evaluated) = 1

\* C20: a RequestException on the open-PR fetch leaves monitored_prs as it
\* was before the cycle; a RequestException on an entry's check-run fetch
\* leaves monitored_prs as it was before that fetch, so the entry is still
\* notified = False and the flags set earlier in the cycle are kept.
C20_FailedCycleKeepsTracking ==
    [][/\ (pc = "repo_fetch" /\ RaisesRequestException(response')) =>
            /\ monitored_prs' = monitored_prs
            /\ pc' = "repo_sleep"
       /\ (pc = "repo_check" /\ RaisesRequestException(response')) =>
            /\ monitored_prs' = monitored_prs
            /\ ~monitored_prs'[cycle.next].notified
            /\ pc' = "repo_sleep"]_vars

\* The first entry was notified in this cycle, then the check-run fetch of
\* the second raised.
C20_Witness ==
    /\ pc = "repo_sleep"
    /\ cycle.aborted
    /\ RaisesRequestException(response)
    /\ Len(monitored_prs) = 2
    /\ Cardinality(cycle.evaluated) = 2
    /\ monitored_prs[1].notified
    /\ ~monitored_prs[2].notified
    /\ evalIn.pr_number = monitored_prs[2].number

====
